---- MODULE Spec2Model ----
(***************************************************************************)
(* SubKrek: a subdomain scanner.                                           *)
(*   scanner/mod.rs  - Scanner: bounded-concurrency DNS probing            *)
(*   wordlist/mod.rs - WordlistManager: word-list registration and loading *)
(*   wayback/mod.rs  - WaybackMachine: archive harvest                     *)
(*   utils/mod.rs    - format_url / extract_domain                         *)
(*   main.rs         - the command-line run                                *)
(* Strings that the code inspects character by character are sequences of  *)
(* one-character strings; names that are only carried around are atoms.    *)
(***************************************************************************)
EXTENDS Integers, Sequences, FiniteSets, TLC

VARIABLES
    \* ---- scanner/mod.rs ----
    concurrency,    \* Scanner.concurrency
    spc,            \* position of the scan_domains call
    subdomains,     \* the argument of scan_domains
    next_idx,       \* how many candidates stream::iter has handed out
    queue,          \* Buffered.in_progress_queue (FuturesOrdered)
    results,        \* what collect() has gathered: <<subdomain, status>>
    pb_pos,         \* ProgressBar position
    probeLog,       \* history: per candidate index, the check_subdomain calls made
    counts,         \* valid_count / invalid_count / error_count
    ret,            \* the value scan_domains returned
    \* ---- wordlist/mod.rs ----
    fs,                 \* the file system: path -> [kind, lines, err]
    default_directory,  \* WordlistManager.default_directory
    wordlist_paths,     \* WordlistManager.wordlist_paths
    loaded_words,       \* WordlistManager.loaded_words
    wl_last,            \* history: the last event, with the result of a call
    \* ---- main.rs ----
    mpc,            \* position of main
    m_args,         \* Args
    m_domain,       \* domain
    m_sources,      \* the word-list sources the Scanner holds
    m_resp,         \* history: what the archive answered
    m_wb,           \* what fetch_subdomains returned
    m_scan,         \* history: the scan_domains call of main
    m_exit,         \* what main returned
    \* ---- wayback/mod.rs ----
    wb_pc,          \* position of the fetch_subdomains call
    wb_domain,      \* the argument of fetch_subdomains
    wb_resp,        \* history: what the archive answered
    wb_ret          \* what fetch_subdomains returned

scanVars == <<concurrency, spc, subdomains, next_idx, queue, results, pb_pos,
              probeLog, counts, ret>>

wlVars == <<fs, default_directory, wordlist_paths, loaded_words, wl_last>>

mainVars == <<mpc, m_args, m_domain, m_sources, m_resp, m_wb, m_scan, m_exit>>

wbVars == <<wb_pc, wb_domain, wb_resp, wb_ret>>

vars == <<scanVars, wlVars, mainVars, wbVars>>

(***************************************************************************)
(* Bounds                                                                  *)
(***************************************************************************)
MaxConc == 2
MaxCands == 3
MaxRegistered == 2
MaxRows == 2

(***************************************************************************)
(* scanner/mod.rs                                                          *)
(***************************************************************************)

\* Candidate names handed to scan_domains.  The last one has an empty label,
\* which Name::from_ascii rejects.
GoodNames == {"www.ex.com", "api.ex.com"}
MalformedNames == {"a..ex.com"}
CandidateNames == GoodNames \cup MalformedNames

\* Name::from_ascii(subdomain).is_ok()
NameFromAsciiOk(s) == s \notin MalformedNames

\* What resolver.lookup_ip(name) can come back with: Ok with at least one
\* address, Ok with none, or Err with one of the ResolveErrorKind variants.
ResolveErrorKinds == {"NoRecordsFound", "Timeout", "Io"}
LookupOutcomes == {"OkSome", "OkNone"} \cup ResolveErrorKinds

ScanStatus == {"Valid", "Invalid", "Error"}

\* A plausible slip: every resolve error, a timeout included, counted as Invalid.
check_subdomain_AllErrInvalid(subdomain, lookup) ==
    IF NameFromAsciiOk(subdomain)
      THEN IF lookup = "OkSome" THEN "Valid" ELSE "Invalid"
      ELSE "Error"

\* Scanner::check_subdomain
check_subdomain(subdomain, lookup) ==
    IF NameFromAsciiOk(subdomain)
      THEN CASE lookup = "OkSome" -> "Valid"
             [] lookup = "OkNone" -> "Invalid"
             [] lookup = "NoRecordsFound" -> "Invalid"
             [] OTHER -> "Error"
      ELSE "Error"

\* Sequences over S of length at most n
SeqUpTo(S, n) == UNION {[1..k -> S] : k \in 0..n}

RECURSIVE CountStatus(_, _)
CountStatus(rs, st) ==
    IF rs = <<>> THEN 0
    ELSE (IF Head(rs)[2] = st THEN 1 ELSE 0) + CountStatus(Tail(rs), st)

\* A plausible slip: the filter keeps errored candidates too.
KeepResult_KeepsError(status) == status \in {"Valid", "Error"}

\* the filter_map closure of scan_domains: Some(subdomain) only for Valid
KeepResult(status) == status = "Valid"

RECURSIVE FilterValid(_)
FilterValid(rs) ==
    IF rs = <<>> THEN <<>>
    ELSE (IF KeepResult(Head(rs)[2]) THEN <<Head(rs)[1]>> ELSE <<>>)
         \o FilterValid(Tail(rs))

\* everything the scanner does not touch
notScanVars == <<wlVars, mainVars, wbVars>>
\* everything the word-list manager does not touch
notWlVars == <<scanVars, mainVars, wbVars>>
\* everything main does not touch
notMainVars == <<scanVars, wlVars, wbVars>>
\* everything a direct fetch_subdomains call does not touch
notWbVars == <<scanVars, wlVars, mainVars>>

NoRet == [kind |-> "none"]
NotProbed == [n |-> 0, lookup |-> "none", status |-> "none"]

\* Scanner::new
ScannerNew ==
    /\ concurrency \in 0..MaxConc
    /\ spc = "idle"
    /\ subdomains = <<>>
    /\ next_idx = 0
    /\ queue = <<>>
    /\ results = <<>>
    /\ pb_pos = 0
    /\ probeLog = <<>>
    /\ counts = [valid |-> 0, invalid |-> 0, error |-> 0]
    /\ ret = NoRet

\* A plausible slip: the emptiness test of scan_domains left out.
IsEmptyInput_Never(subs) == FALSE

\* subdomains.is_empty()
IsEmptyInput(subs) == Len(subs) = 0

\* scan_domains, up to the call of perform_scan: the empty-input return, or
\* the progress bar is created and the stream is set up.
scan_domains_call ==
    /\ spc = "idle"
    /\ \E subs \in SeqUpTo(CandidateNames, MaxCands) :
         /\ subdomains' = subs
         /\ probeLog' = [i \in 1..Len(subs) |-> NotProbed]
         /\ IF IsEmptyInput(subs)
              THEN /\ spc' = "failed"
                   /\ ret' = [kind |-> "Err", err |-> "EmptyInput"]
              ELSE /\ spc' = "probing"
                   /\ ret' = NoRet
    /\ next_idx' = 0
    /\ queue' = <<>>
    /\ results' = <<>>
    /\ pb_pos' = 0
    /\ counts' = [valid |-> 0, invalid |-> 0, error |-> 0]
    /\ UNCHANGED <<concurrency, notScanVars>>

\* A plausible slip: an off-by-one admission test.
HasRoom_OffByOne(len, max) == len <= max

\* Buffered::poll_next: while in_progress_queue.len() < max
HasRoom(len, max) == len < max

\* Buffered::poll_next, the filling loop: the next candidate is taken from
\* the stream, the map closure builds its future, and the future is pushed
\* on the in-progress queue.
buffered_fill ==
    /\ spc = "probing"
    /\ HasRoom(Len(queue), concurrency)
    /\ next_idx < Len(subdomains)
    /\ next_idx' = next_idx + 1
    /\ queue' = Append(queue, [idx |-> next_idx + 1, state |-> "pending",
                               status |-> "none"])
    /\ UNCHANGED <<concurrency, spc, subdomains, results, pb_pos, probeLog,
                   counts, ret,
                   notScanVars>>

\* The async block of perform_scan, polled: it has no await point, so one
\* poll runs check_subdomain, advances the progress bar and completes.
probe_poll ==
    /\ spc = "probing"
    /\ \E i \in 1..Len(queue) : \E lookup \in LookupOutcomes :
         /\ queue[i].state = "pending"
         /\ LET name == subdomains[queue[i].idx]
                st   == check_subdomain(name, lookup)
            IN /\ queue' = [queue EXCEPT ![i] = [idx |-> queue[i].idx,
                                                 state |-> "ready",
                                                 status |-> st]]
               /\ probeLog' = [probeLog EXCEPT ![queue[i].idx] =
                                  [n |-> @.n + 1, lookup |-> lookup, status |-> st]]
    /\ pb_pos' = pb_pos + 1
    /\ UNCHANGED <<concurrency, spc, subdomains, next_idx, results, counts, ret,
                   notScanVars>>

\* FuturesOrdered yields the output of the oldest future once it is ready;
\* collect() appends it.
buffered_yield ==
    /\ spc = "probing"
    /\ queue # <<>>
    /\ Head(queue).state = "ready"
    /\ results' = Append(results, <<subdomains[Head(queue).idx], Head(queue).status>>)
    /\ queue' = Tail(queue)
    /\ UNCHANGED <<concurrency, spc, subdomains, next_idx, pb_pos, probeLog,
                   counts, ret,
                   notScanVars>>

\* A plausible slip: the stream ends as soon as the candidates run out,
\* dropping the futures still buffered.
BufferedDone_DropsPending(q, taken, total) == taken = total

\* Buffered::poll_next: Ready(None) once the underlying stream is done and
\* the in-progress queue is empty
BufferedDone(q, taken, total) == taken = total /\ q = <<>>

\* Buffered ends the stream when the underlying stream is done and the queue
\* is empty; the underlying stream is found done only inside the filling
\* loop.  scan_domains then counts, filters and returns.
scan_domains_return ==
    /\ spc = "probing"
    /\ HasRoom(Len(queue), concurrency)
    /\ BufferedDone(queue, next_idx, Len(subdomains))
    /\ counts' = [valid   |-> CountStatus(results, "Valid"),
                  invalid |-> CountStatus(results, "Invalid"),
                  error   |-> CountStatus(results, "Error")]
    /\ ret' = [kind |-> "Ok", val |-> FilterValid(results)]
    /\ spc' = "done"
    /\ UNCHANGED <<concurrency, subdomains, next_idx, queue, results, pb_pos,
                   probeLog,
                   notScanVars>>

\* The caller is free to call scan_domains again on the same Scanner; the
\* locals of the finished call are gone.
scan_again ==
    /\ spc \in {"done", "failed"}
    /\ spc' = "idle"
    /\ subdomains' = <<>>
    /\ next_idx' = 0
    /\ queue' = <<>>
    /\ results' = <<>>
    /\ pb_pos' = 0
    /\ probeLog' = <<>>
    /\ counts' = [valid |-> 0, invalid |-> 0, error |-> 0]
    /\ ret' = NoRet
    /\ UNCHANGED <<concurrency, notScanVars>>

ScanNext ==
    \/ scan_domains_call
    \/ buffered_fill
    \/ probe_poll
    \/ buffered_yield
    \/ scan_domains_return
    \/ scan_again

(***************************************************************************)
(* wordlist/mod.rs                                                         *)
(***************************************************************************)

LowerLetters ==
    <<"a", "b", "c", "d", "e", "f", "g", "h", "i", "j", "k", "l", "m",
      "n", "o", "p", "q", "r", "s", "t", "u", "v", "w", "x", "y", "z">>
UpperLetters ==
    <<"A", "B", "C", "D", "E", "F", "G", "H", "I", "J", "K", "L", "M",
      "N", "O", "P", "Q", "R", "S", "T", "U", "V", "W", "X", "Y", "Z">>
Digits == {"0", "1", "2", "3", "4", "5", "6", "7", "8", "9"}

\* [a-zA-Z0-9]
AsciiAlnum ==
    {LowerLetters[i] : i \in 1..26} \cup {UpperLetters[i] : i \in 1..26} \cup Digits

\* char::is_alphanumeric is Unicode-aware: "é" is alphanumeric
Alnum == AsciiAlnum \cup {"é"}
Whitespace == {" "}

\* bytes of a char in UTF-8: str::len counts bytes
Utf8Len(c) == IF c = "é" THEN 2 ELSE 1

\* str::len: the length in bytes
ByteLen(s) ==
    Cardinality({i \in 1..Len(s) : Utf8Len(s[i]) = 1})
    + 2 * Cardinality({i \in 1..Len(s) : Utf8Len(s[i]) = 2})

RECURSIVE TrimStart(_)
TrimStart(s) ==
    IF s # <<>> /\ Head(s) \in Whitespace THEN TrimStart(Tail(s)) ELSE s

RECURSIVE TrimEnd(_)
TrimEnd(s) ==
    IF s # <<>> /\ s[Len(s)] \in Whitespace
      THEN TrimEnd(SubSeq(s, 1, Len(s) - 1))
      ELSE s

\* str::trim
Trim(s) == TrimEnd(TrimStart(s))

\* str::contains(char), starts_with(char), ends_with(char)
Contains(s, c) == \E i \in 1..Len(s) : s[i] = c
StartsWith(s, c) == s # <<>> /\ s[1] = c
EndsWith(s, c) == s # <<>> /\ s[Len(s)] = c

MaxWordBytes == 63

\* A plausible slip: the test for consecutive dots and hyphens left out.
CharsOk_NoRunCheck(chars) ==
    \A i \in 2..Len(chars) : chars[i] \in Alnum \cup {"-", "_", "."}

\* validate_word: the loop over chars[1..], prev_char being chars[i - 1]
CharsOk(chars) ==
    \A i \in 2..Len(chars) :
        /\ ~(chars[i] \notin Alnum /\ chars[i] \notin {"-", "_", "."})
        /\ ~(\/ (chars[i] = "." /\ chars[i - 1] = ".")
             \/ (chars[i] = "-" /\ chars[i - 1] = "-"))

\* WordlistManager::validate_word
validate_word(word) ==
    IF word = <<>> \/ ByteLen(word) > MaxWordBytes THEN FALSE
    ELSE IF word[1] \notin Alnum \/ word[Len(word)] \notin Alnum THEN FALSE
    ELSE CharsOk(word)

SkipChars == {"=", "[", "]", "{", "}", "?", "&"}

\* load_wordlist: "Skip words that likely aren't valid subdomains"
LikelyNotSubdomain(word) ==
    \/ \E c \in SkipChars : Contains(word, c)
    \/ StartsWith(word, ".")
    \/ EndsWith(word, ".")

\* load_wordlist: the body of the loop over the lines, for one line
insert_line(words, line) ==
    LET word == Trim(line)
    IN IF word # <<>> /\ ~StartsWith(word, "#")
         THEN IF LikelyNotSubdomain(word) THEN words
              ELSE IF validate_word(word) THEN words \cup {word} ELSE words
         ELSE words

RECURSIVE insert_lines(_, _)
insert_lines(words, lines) ==
    IF lines = <<>> THEN words
    ELSE insert_lines(insert_line(words, Head(lines)), Tail(lines))

\* ---- the file system ----
Absent == [kind |-> "absent", lines |-> <<>>, err |-> "none"]
Dir(e) == [kind |-> "dir", lines |-> <<>>, err |-> e]
File(ls, e) == [kind |-> "file", lines |-> ls, err |-> e]

FsAt(p) == IF p \in DOMAIN fs THEN fs[p] ELSE Absent
\* Path::exists, is_dir, is_file
Exists(p) == FsAt(p).kind # "absent"
IsDir(p) == FsAt(p).kind = "dir"
IsFile(p) == FsAt(p).kind = "file"

\* Path::extension of the last component
Extension(p) ==
    IF p = <<>> THEN "none"
    ELSE CASE p[Len(p)] \in {"a.txt", "b.txt", "h.txt", "nope.txt"} -> "txt"
           [] p[Len(p)] = "c.dat" -> "dat"
           [] OTHER -> "none"

\* fs::read_dir: the entries of a directory
DirEntries(dir) ==
    {p \in DOMAIN fs : /\ Len(p) = Len(dir) + 1
                       /\ SubSeq(p, 1, Len(dir)) = dir
                       /\ fs[p].kind # "absent"}

\* Path::is_absolute
IsAbsolute(p) == p # <<>> /\ p[1] = "/"

\* WordlistManager::resolve_path: a leading "./" is dropped, a relative path
\* is joined to the default directory
resolve_path(p) ==
    IF IsAbsolute(p) THEN p
    ELSE default_directory \o (IF StartsWith(p, ".") THEN Tail(p) ELSE p)

Range(q) == {q[i] : i \in 1..Len(q)}

\* every order in which the elements of S can be listed
Orderings(S) ==
    {o \in [1..Cardinality(S) -> S] : \A i, j \in 1..Cardinality(S) :
                                          i # j => o[i] # o[j]}

\* WordlistManager::add_directory: the results it can have (read_dir lists
\* the entries in no particular order)
add_directory_outcomes(paths, directory) ==
    LET dir_path == resolve_path(directory)
        new == {p \in DirEntries(dir_path) :
                   IsFile(p) /\ Extension(p) = "txt" /\ p \notin Range(paths)}
    IN IF ~Exists(dir_path) \/ ~IsDir(dir_path)
         THEN {[paths |-> paths, err |-> "DirectoryNotFound"]}
         ELSE IF FsAt(dir_path).err # "none"
           THEN {[paths |-> paths, err |-> "IoError"]}
           ELSE {[paths |-> paths \o o, err |-> "none"] : o \in Orderings(new)}

\* WordlistManager::load_wordlist.  File::open can fail; a read can fail
\* (`line?`) after the lines the file lists, which are inserted by then.
load_wordlist(words, path) ==
    LET f == FsAt(path)
    IN IF f.kind # "file" \/ f.err = "open"
         THEN [words |-> words, err |-> "IoError"]
         ELSE [words |-> insert_lines(words, f.lines),
               err |-> IF f.err = "read" THEN "IoError" ELSE "none"]

\* load_all: the loop over paths_to_load; n counts the paths gone through
RECURSIVE load_paths(_, _, _)
load_paths(words, paths, n) ==
    IF paths = <<>> THEN [words |-> words, err |-> "none", n |-> n]
    ELSE IF Exists(Head(paths))
      THEN LET r == load_wordlist(words, Head(paths))
           IN IF r.err # "none" THEN [words |-> r.words, err |-> r.err, n |-> n]
              ELSE load_paths(r.words, Tail(paths), n + 1)
      ELSE load_paths(words, Tail(paths), n + 1)

\* A plausible slip: the final emptiness test left out.
load_all_result_AlwaysOk(words) == "none"

\* load_all: the final test
load_all_result(words) == IF words = {} THEN "EmptyWordlist" ELSE "none"

Kind(err) == IF err = "none" THEN "Ok" ELSE "Err"

\* ---- file contents ----
Rep(c, n) == [i \in 1..n |-> c]
Www == <<"w", "w", "w">>

\* valid lines, a line to trim, a comment, a blank line
K1 == << Www, <<" ", "a", "b", " ">>, <<"#", "c">>, <<>>, <<"a", "-", "b">> >>
\* valid and invalid lines mixed
K2 == << Www, <<"_", "a">>, <<"[", "a", "]">>, <<"a", "_", "b">>,
         <<"a", ".", "b">> >>
\* no valid line at all
K3 == << <<" ">>, <<"a", "=", "b">>, <<".", "a">>, <<"a", ".">>,
         <<"a", ".", ".", "b">>, <<"a", "-", "-", "b">>, <<"a", " ", "b">>,
         <<"a", "!", "b">>, <<"a", "?", "b">>, <<"{", "a", "}">>,
         <<"a", "&", "b">>, <<"a", "_">>, <<"-", "a">>, <<"#", "w">> >>
\* the length limit and mixed separators
K4 == << Rep("a", MaxWordBytes), Rep("a", MaxWordBytes + 1), <<"é">>,
         Rep("é", 32), <<"a", "-", ".", "b">>, <<"1">>, <<"a", "_", "_", "b">> >>

FileStates ==
    {Absent, File(<<>>, "none"), File(K1, "none"), File(K2, "none"),
     File(K3, "none"), File(K4, "none"), File(K1, "open"), File(K2, "read")}

TmpFile == <<"/", "tmp", "h.txt">>

\* WordlistManager::new: the default directory exists (it is created when
\* missing), nothing is registered, nothing is loaded.  The directory holds
\* a.txt, b.txt, c.dat and a subdirectory, or nothing at all.
WlNew ==
    /\ default_directory \in {<<"/", "wl">>, <<"wl">>}
    /\ \/ \E fa \in FileStates,
             fb \in {File(K1, "none"), File(K3, "none"), File(K1, "open")} :
            fs = (default_directory :> Dir("none"))
                 @@ (default_directory \o <<"a.txt">> :> fa)
                 @@ (default_directory \o <<"b.txt">> :> fb)
                 @@ (default_directory \o <<"c.dat">> :> File(K1, "none"))
                 @@ (default_directory \o <<"wl">> :> Dir("none"))
                 @@ (TmpFile :> File(K2, "none"))
       \/ \E de \in {"none", "open"} :
            fs = (default_directory :> Dir(de))
                 @@ (TmpFile :> File(K2, "none"))
    /\ wordlist_paths = <<>>
    /\ loaded_words = {}
    /\ wl_last = [op |-> "new"]

FileArgs == {<<"a.txt">>, <<".", "a.txt">>, <<"b.txt">>, <<"nope.txt">>,
             TmpFile, default_directory \o <<"a.txt">>}
DirArgs == {default_directory, <<"wl">>, <<"a.txt">>, <<"nope">>}

\* A plausible slip: the path is recorded without looking whether it exists.
ShouldRecord_NoExistsCheck(paths, path) == path \notin Range(paths)

\* add_wordlist: path.exists() && !self.wordlist_paths.contains(&path)
ShouldRecord(paths, path) == Exists(path) /\ path \notin Range(paths)

\* WordlistManager::add_wordlist
add_wordlist ==
    /\ \E arg \in FileArgs :
         LET path == resolve_path(arg)
         IN /\ Len(wordlist_paths) < MaxRegistered
            /\ wordlist_paths' = IF ShouldRecord(wordlist_paths, path)
                                   THEN Append(wordlist_paths, path)
                                   ELSE wordlist_paths
            /\ wl_last' = [op |-> "add_wordlist", path |-> path, kind |-> "Ok",
                           err |-> "none", existed |-> Exists(path),
                           before |-> wordlist_paths]
    /\ UNCHANGED <<fs, default_directory, loaded_words, notWlVars>>

\* WordlistManager::add_directory
add_directory ==
    /\ \E arg \in DirArgs :
         \E r \in add_directory_outcomes(wordlist_paths, arg) :
            /\ Len(r.paths) <= MaxRegistered
            /\ wordlist_paths' = r.paths
            /\ wl_last' = [op |-> "add_directory", path |-> resolve_path(arg),
                           kind |-> Kind(r.err), err |-> r.err,
                           before |-> wordlist_paths]
    /\ UNCHANGED <<fs, default_directory, loaded_words, notWlVars>>

\* A plausible slip: the fragments of the previous load are kept.
loaded_words_clear_Kept(words) == words

\* load_all: self.loaded_words.clear()
loaded_words_clear(words) == {}

\* WordlistManager::load_all
load_all ==
    /\ \E d \in (IF /\ wordlist_paths = <<>>
                    /\ Exists(default_directory) /\ IsDir(default_directory)
                   THEN add_directory_outcomes(wordlist_paths, default_directory)
                   ELSE {[paths |-> wordlist_paths, err |-> "none"]}) :
         /\ wordlist_paths' = d.paths
         /\ IF d.err # "none"
              THEN /\ loaded_words' = loaded_words_clear(loaded_words)
                   /\ wl_last' = [op |-> "load_all", kind |-> "Err",
                                  err |-> d.err, stage |-> "add_directory",
                                  gone |-> 0, before |-> wordlist_paths,
                                  prev |-> loaded_words]
              ELSE LET r == load_paths(loaded_words_clear(loaded_words),
                                       d.paths, 0)
                       e == IF r.err # "none" THEN r.err
                            ELSE load_all_result(r.words)
                   IN /\ loaded_words' = r.words
                      /\ wl_last' = [op |-> "load_all", kind |-> Kind(e),
                                     err |-> e,
                                     stage |-> IF r.err # "none"
                                                 THEN "load_wordlist"
                                                 ELSE "end",
                                     gone |-> r.n, before |-> wordlist_paths,
                                     prev |-> loaded_words]
    /\ UNCHANGED <<fs, default_directory, notWlVars>>

\* The environment: a registered file, or the default directory when it is
\* empty, is removed.
fs_remove ==
    /\ \E p \in Range(wordlist_paths) \cup {default_directory} :
         /\ Exists(p)
         /\ DirEntries(p) = {}
         /\ fs' = [fs EXCEPT ![p] = Absent]
    /\ wl_last' = [op |-> "fs_remove"]
    /\ UNCHANGED <<default_directory, wordlist_paths, loaded_words, notWlVars>>

WlNext ==
    \/ add_wordlist
    \/ add_directory
    \/ load_all
    \/ fs_remove

(***************************************************************************)
(* utils/mod.rs                                                            *)
(***************************************************************************)

\* char::to_lowercase
LowerChar(c) ==
    IF \E i \in 1..26 : UpperLetters[i] = c
      THEN LowerLetters[CHOOSE i \in 1..26 : UpperLetters[i] = c]
      ELSE c

\* str::to_lowercase
ToLower(s) == [i \in 1..Len(s) |-> LowerChar(s[i])]

\* pat occurs in s at position i
MatchAt(s, pat, i) ==
    /\ i >= 1
    /\ i + Len(pat) - 1 <= Len(s)
    /\ \A k \in 1..Len(pat) : s[i + k - 1] = pat[k]

\* str::starts_with(&str), str::ends_with(&str)
StartsWithStr(s, pat) == MatchAt(s, pat, 1)
EndsWithStr(s, pat) == MatchAt(s, pat, Len(s) - Len(pat) + 1)

\* the first position at or after i where pat occurs in s; 0 when none
FindFrom(s, pat, i) ==
    LET hits == {j \in i..Len(s) : MatchAt(s, pat, j)}
    IN IF hits = {} THEN 0 ELSE CHOOSE j \in hits : \A k \in hits : j <= k

Http == <<"h", "t", "t", "p", ":", "/", "/">>
Https == <<"h", "t", "t", "p", "s", ":", "/", "/">>
SchemeSep == <<":", "/", "/">>

\* A plausible slip: the scheme is added without looking for one.
format_url_AlwaysPrefix(url) == Https \o ToLower(Trim(url))

\* utils::format_url
format_url(url) ==
    LET u == ToLower(Trim(url))
    IN IF ~StartsWithStr(u, Http) /\ ~StartsWithStr(u, Https)
         THEN Https \o u
         ELSE u

\* url.split("://").nth(1): the text between the first "://" and the next
\* one; None when there is no "://"
SplitNth1(u) ==
    LET a == FindFrom(u, SchemeSep, 1)
    IN IF a = 0 THEN [some |-> FALSE, val |-> <<>>]
       ELSE LET b == FindFrom(u, SchemeSep, a + 3)
            IN [some |-> TRUE,
                val |-> SubSeq(u, a + 3, IF b = 0 THEN Len(u) ELSE b - 1)]

\* s.split('/').next(): the text before the first '/'
BeforeSlash(s) ==
    LET a == FindFrom(s, <<"/">>, 1)
    IN IF a = 0 THEN s ELSE SubSeq(s, 1, a - 1)

\* utils::extract_domain
extract_domain(url) ==
    LET part == SplitNth1(format_url(url))
    IN IF part.some THEN [some |-> TRUE, val |-> BeforeSlash(part.val)]
       ELSE [some |-> FALSE, val |-> <<>>]

(***************************************************************************)
(* wayback/mod.rs                                                          *)
(***************************************************************************)

\* [-a-zA-Z0-9] of the subdomain pattern
LabelChars == AsciiAlnum \cup {"-"}

\* one iteration of ([a-zA-Z0-9][-a-zA-Z0-9]*\.) at position p, d being the
\* position of the next dot: the position after that dot, 0 when the
\* iteration does not match.  The label cannot hold a dot, so it runs to
\* the next one.
LabelDotTo(s, p, d) ==
    IF d = 0 \/ \E k \in p..(d - 1) : s[k] \notin LabelChars THEN 0 ELSE d + 1

LabelDot(s, p) ==
    IF p > Len(s) \/ s[p] \notin AsciiAlnum THEN 0
    ELSE LabelDotTo(s, p, FindFrom(s, <<".">>, p))

\* the positions the repetition ( ... )* can reach from p, one per
\* iteration, p itself first
RECURSIVE StarPositions(_, _)
StarFrom(s, p, next) ==
    IF next = 0 THEN <<p>> ELSE <<p>> \o StarPositions(s, next)
StarPositions(s, p) == StarFrom(s, p, LabelDot(s, p))

\* (?i) literal: base occurs in s at p, letter case ignored
MatchAtNoCase(s, base, p) == MatchAt(ToLower(s), ToLower(base), p)

\* (?i)https?:// at position i of the lower-cased text: the position after
\* it, 0 when it does not match
SchemeEnd(l, i) ==
    IF MatchAt(l, Https, i) THEN i + Len(Https)
    ELSE IF MatchAt(l, Http, i) THEN i + Len(Http)
    ELSE 0

MaxOf(S) == CHOOSE x \in S : \A y \in S : y <= x
MinOf(S) == CHOOSE x \in S : \A y \in S : x <= y

\* the match that ends the repetition after ps[k]: group 1 holds the last
\* label matched, and is absent when there is none
GroupOne(s, ps, k) ==
    IF k = 1 THEN [matched |-> TRUE, group1 |-> FALSE]
    ELSE [matched |-> TRUE, group1 |-> TRUE,
          val |-> SubSeq(s, ps[k - 1], ps[k] - 1)]

\* the repetition is greedy: the largest number of labels after which the
\* base domain follows
MatchGreedy(s, ps, ok) ==
    IF ok = {} THEN [matched |-> FALSE] ELSE GroupOne(s, ps, MaxOf(ok))

MatchStar(s, base, ps) ==
    MatchGreedy(s, ps, {k \in 1..Len(ps) : MatchAtNoCase(s, base, ps[k])})

MatchAfterScheme(s, base, p) ==
    IF p = 0 THEN [matched |-> FALSE]
    ELSE MatchStar(s, base, StarPositions(s, p))

\* the pattern tried at position i
MatchPatternAt(s, base, i) == MatchAfterScheme(s, base, SchemeEnd(ToLower(s), i))

\* the start positions at which the pattern matches
MatchStarts(s, base) == {i \in 1..Len(s) : MatchPatternAt(s, base, i).matched}

FirstMatch(s, base, starts) ==
    IF starts = {} THEN [matched |-> FALSE]
    ELSE MatchPatternAt(s, base, MinOf(starts))

\* re.captures(url): the leftmost match
Captures(s, base) == FirstMatch(s, base, MatchStarts(s, base))

\* A plausible slip: the captured label is kept without the base domain.
FullDomain_NoBase(sub, base) ==
    IF EndsWith(sub, ".") THEN SubSeq(sub, 1, Len(sub) - 1) ELSE sub

\* extract_subdomains: the name built from the captured label
FullDomain(sub, base) ==
    LET full == IF EndsWithStr(sub, base) THEN sub ELSE sub \o base
    IN IF EndsWith(full, ".") THEN SubSeq(full, 1, Len(full) - 1) ELSE full

\* WaybackMachine::extract_subdomains: the set of names and the count of
\* skipped URLs
RECURSIVE extract_subdomains(_, _)
extract_subdomains(base, urls) ==
    IF urls = <<>> THEN [subdomains |-> {}, invalid_count |-> 0]
    ELSE LET rest == extract_subdomains(base, Tail(urls))
             cap  == Captures(Head(urls), base)
         IN IF cap.matched /\ cap.group1
              THEN [subdomains |-> {FullDomain(cap.val, base)} \cup rest.subdomains,
                    invalid_count |-> rest.invalid_count]
              ELSE [subdomains |-> rest.subdomains,
                    invalid_count |-> rest.invalid_count + 1]

\* fetch_subdomains: the domain read back from the query URL with
\* url=\*\.([^&]+), "unknown" when that does not match
Unknown == <<"u", "n", "k", "n", "o", "w", "n">>
QueryDomain(domain) ==
    LET a == FindFrom(domain, <<"&">>, 1)
        d == IF a = 0 THEN domain ELSE SubSeq(domain, 1, a - 1)
    IN IF d = <<>> THEN Unknown ELSE d

\* A plausible slip: a table with nothing but the header row counts as empty.
TableIsEmpty_HeaderOnly(table) == Len(table) <= 1

\* fetch_subdomains: urls.is_empty()
TableIsEmpty(table) == Len(table) = 0

\* WaybackMachine::fetch_subdomains, on the response the archive gives.
\* row[0] of a row without columns panics.
fetch_subdomains(domain, resp) ==
    CASE resp.net = "fail" -> [kind |-> "Err", err |-> "NetworkError"]
      [] resp.net = "ok" /\ ~resp.success -> [kind |-> "Err", err |-> "HttpError"]
      [] resp.net = "ok" /\ resp.success /\ ~resp.json ->
            [kind |-> "Err", err |-> "InvalidResponse"]
      [] OTHER ->
            IF TableIsEmpty(resp.table)
              THEN [kind |-> "Err", err |-> "EmptyResponse"]
              ELSE IF \E i \in 2..Len(resp.table) : resp.table[i] = <<>>
                THEN [kind |-> "Panic", err |-> "index out of bounds"]
                ELSE LET urls == [i \in 1..(Len(resp.table) - 1) |->
                                     resp.table[i + 1][1]]
                         x == extract_subdomains(QueryDomain(domain), urls)
                     IN [kind |-> "Ok", val |-> x.subdomains,
                         skipped |-> x.invalid_count]

(***************************************************************************)
(* main.rs                                                                 *)
(* main drives a Scanner that owns the word lists (Scanner::new with a     *)
(* word-list directory, add_wordlist, scan_domains(&domain)); that Scanner *)
(* is not among the sources, so what it does with the word lists is taken  *)
(* from the design: candidates are the fragments of the registered sources *)
(* joined to the domain, an empty candidate set is an input error, and     *)
(* every candidate is probed.                                              *)
(***************************************************************************)

Str_ex_com == <<"e", "x", ".", "c", "o", "m">>

\* --domain values tried
DomainArgs ==
    { Str_ex_com,
      <<" ", "E", "X", ".", "c", "o", "m", " ">>,
      Http \o Str_ex_com \o <<"/", "x">>,
      <<>>,
      <<"n", "o", "d", "o", "t">>,
      <<"f", "t", "p">> \o SchemeSep \o Str_ex_com }

\* archived URLs the index can return
Url_www == Http \o <<"w", "w", "w", ".">> \o Str_ex_com \o <<"/", "x">>
Url_evil == Http \o <<"e", "v", "i", "l", ".", "c", "o", "m", "/">> \o Str_ex_com
Url_bare == Https \o Str_ex_com
ArchiveUrls == {Url_www, Url_evil, Url_bare}

HeaderRow == << <<"o", "r", "i", "g", "i", "n", "a", "l">> >>

\* the ways the archive can answer: no answer, an error status, a body that
\* is no table, or a table of at most MaxRows rows after the header, one of
\* which may have no column
ArchiveResponses ==
    { [net |-> "fail", success |-> FALSE, json |-> FALSE, table |-> <<>>],
      [net |-> "ok", success |-> FALSE, json |-> FALSE, table |-> <<>>],
      [net |-> "ok", success |-> TRUE, json |-> FALSE, table |-> <<>>],
      [net |-> "ok", success |-> TRUE, json |-> TRUE, table |-> <<>>],
      [net |-> "ok", success |-> TRUE, json |-> TRUE,
       table |-> <<HeaderRow, <<>>>>] }
    \cup { [net |-> "ok", success |-> TRUE, json |-> TRUE,
            table |-> <<HeaderRow>> \o [i \in 1..Len(us) |-> <<us[i]>>]] :
           us \in SeqUpTo(ArchiveUrls, MaxRows) }

NoExit == [kind |-> "none"]
Aborted(at, err) == [kind |-> "Err", at |-> at, err |-> err]

\* Args::parse: the command line
MainStart ==
    /\ mpc = "start"
    /\ m_args \in [domain : DomainArgs, wordlist : BOOLEAN, wayback : BOOLEAN,
                   output : BOOLEAN]
    /\ m_domain = <<>>
    /\ m_sources = {}
    /\ m_resp = [net |-> "none"]
    /\ m_wb = [kind |-> "none"]
    /\ m_scan = [called |-> FALSE]
    /\ m_exit = NoExit

\* main: extract_domain(&args.domain).ok_or("Invalid domain format")?
main_extract_domain ==
    /\ mpc = "start"
    /\ LET d == extract_domain(m_args.domain)
       IN IF d.some
            THEN /\ m_domain' = d.val
                 /\ mpc' = "setup"
                 /\ m_exit' = m_exit
            ELSE /\ m_domain' = m_domain
                 /\ mpc' = "aborted"
                 /\ m_exit' = Aborted("start", "Invalid domain format")
    /\ UNCHANGED <<m_args, m_sources, m_resp, m_wb, m_scan, notMainVars>>

\* main: the word-list directory is set up (creating it can fail), the
\* Scanner is built on it, and the --wordlist file, when given, is added
\* (which can fail).
main_setup ==
    /\ mpc = "setup"
    /\ \E dir_ok \in BOOLEAN, add_ok \in BOOLEAN :
         IF ~dir_ok
           THEN /\ mpc' = "aborted"
                /\ m_exit' = Aborted("setup", "io")
                /\ m_sources' = m_sources
           ELSE IF m_args.wordlist /\ ~add_ok
             THEN /\ mpc' = "aborted"
                  /\ m_exit' = Aborted("setup", "add_wordlist")
                  /\ m_sources' = {"directory"}
             ELSE /\ mpc' = "wayback"
                  /\ m_exit' = m_exit
                  /\ m_sources' = IF m_args.wordlist
                                    THEN {"directory", "wordlist"}
                                    ELSE {"directory"}
    /\ UNCHANGED <<m_args, m_domain, m_resp, m_wb, m_scan, notMainVars>>

\* A plausible slip: the harvest error is propagated with `?`.
HarvestErrorAborts_Propagated(result) == result.kind \in {"Err", "Panic"}

\* main: the Err arm of the match on fetch_subdomains only prints; a panic
\* inside fetch_subdomains ends the run
HarvestErrorAborts(result) == result.kind = "Panic"

\* main: the --wayback stage
main_wayback ==
    /\ mpc = "wayback"
    /\ IF ~m_args.wayback
         THEN /\ mpc' = "scan"
              /\ UNCHANGED <<m_resp, m_wb, m_sources, m_exit>>
         ELSE \E resp \in ArchiveResponses, write_ok \in BOOLEAN, add_ok \in BOOLEAN :
                LET r == fetch_subdomains(m_domain, resp)
                IN /\ m_resp' = resp
                   /\ m_wb' = r
                   /\ IF r.kind = "Ok"
                        THEN IF write_ok /\ add_ok
                               THEN /\ m_sources' = m_sources \cup {"historical"}
                                    /\ mpc' = "scan"
                                    /\ m_exit' = m_exit
                               ELSE /\ m_sources' = m_sources
                                    /\ mpc' = "aborted"
                                    /\ m_exit' = Aborted("wayback",
                                          IF write_ok THEN "add_wordlist" ELSE "io")
                        ELSE /\ m_sources' = m_sources
                             /\ IF HarvestErrorAborts(r)
                                  THEN /\ mpc' = "aborted"
                                       /\ m_exit' = Aborted("wayback", r.err)
                                  ELSE /\ mpc' = "scan"
                                       /\ m_exit' = m_exit
    /\ UNCHANGED <<m_args, m_domain, m_scan, notMainVars>>

\* the fragments a source contributes
SourceWords(src, dirWords, harvested) ==
    CASE src = "directory" -> dirWords
      [] src = "wordlist" -> {<<"a", "p", "i">>}
      [] src = "historical" -> harvested

\* candidates: <label>.<domain>
Candidates(words, domain) == {w \o <<".">> \o domain : w \in words}

\* main: scanner.scan_domains(&domain).await?
main_scan ==
    /\ mpc = "scan"
    /\ \E dirWords \in {{}, {Www}} :
         LET harvested == IF m_wb.kind = "Ok" THEN m_wb.val ELSE {}
             words == UNION {SourceWords(s, dirWords, harvested) : s \in m_sources}
             cands == Candidates(words, m_domain)
         IN IF cands = {}
              THEN /\ m_scan' = [called |-> TRUE, sources |-> m_sources,
                                 probed |-> {}, valid |-> {}]
                   /\ mpc' = "aborted"
                   /\ m_exit' = Aborted("scan", "EmptyInput")
              ELSE \E valid \in SUBSET cands :
                     /\ m_scan' = [called |-> TRUE, sources |-> m_sources,
                                   probed |-> cands, valid |-> valid]
                     /\ mpc' = "output"
                     /\ m_exit' = m_exit
    /\ UNCHANGED <<m_args, m_domain, m_sources, m_resp, m_wb, notMainVars>>

\* main: the results are shown and, with --output, written (which can fail)
main_output ==
    /\ mpc = "output"
    /\ \E write_ok \in BOOLEAN :
         IF m_scan.valid # {} /\ m_args.output /\ ~write_ok
           THEN /\ mpc' = "aborted"
                /\ m_exit' = Aborted("output", "io")
           ELSE /\ mpc' = "done"
                /\ m_exit' = [kind |-> "Ok"]
    /\ UNCHANGED <<m_args, m_domain, m_sources, m_resp, m_wb, m_scan, notMainVars>>

MainNext ==
    \/ main_extract_domain
    \/ main_setup
    \/ main_wayback
    \/ main_scan
    \/ main_output

(***************************************************************************)
(* wayback/mod.rs: fetch_subdomains called on its own                      *)
(***************************************************************************)

\* archived URLs: a name two labels below the domain, the domain followed by
\* more host text, and a name with no path
Url_deep == Http \o <<"a", ".", "b", ".">> \o Str_ex_com
Url_suffix ==
    Http \o <<"w", "w", "w", ".">> \o Str_ex_com
         \o <<".", "e", "v", "i", "l", ".", "c", "o", "m">>
Url_plain == Http \o <<"w", "w", "w", ".">> \o Str_ex_com
WbUrls == ArchiveUrls \cup {Url_deep, Url_suffix, Url_plain}

\* domains fetch_subdomains is called with
WbDomains == {Str_ex_com, <<"c", "o", "m">>, <<>>}

\* a response body that is a table: the header row, then one row per URL
TableOf(us) == <<HeaderRow>> \o [i \in 1..Len(us) |-> <<us[i]>>]

\* the ways the archive can answer a direct call
WbResponses ==
    { [net |-> "fail", success |-> FALSE, json |-> FALSE, table |-> <<>>],
      [net |-> "ok", success |-> FALSE, json |-> FALSE, table |-> <<>>],
      [net |-> "ok", success |-> TRUE, json |-> FALSE, table |-> <<>>],
      [net |-> "ok", success |-> TRUE, json |-> TRUE, table |-> <<>>],
      [net |-> "ok", success |-> TRUE, json |-> TRUE,
       table |-> <<HeaderRow, <<>>>>] }
    \cup { [net |-> "ok", success |-> TRUE, json |-> TRUE, table |-> TableOf(us)] :
           us \in SeqUpTo(WbUrls, MaxRows) }

\* WaybackMachine::new
WbNew ==
    /\ wb_pc = "idle"
    /\ wb_domain = <<>>
    /\ wb_resp = [net |-> "none"]
    /\ wb_ret = [kind |-> "none"]

\* fetch_subdomains up to its first await: the query URL is built and sent
wb_send ==
    /\ wb_pc = "idle"
    /\ \E d \in WbDomains : wb_domain' = d
    /\ wb_pc' = "sent"
    /\ wb_resp' = [net |-> "none"]
    /\ wb_ret' = [kind |-> "none"]
    /\ UNCHANGED notWbVars

\* fetch_subdomains from the answer of the archive to its return
wb_receive ==
    /\ wb_pc = "sent"
    /\ \E resp \in WbResponses :
         /\ wb_resp' = resp
         /\ wb_ret' = fetch_subdomains(wb_domain, resp)
    /\ wb_pc' = "returned"
    /\ UNCHANGED <<wb_domain, notWbVars>>

\* the client can be used for another call
wb_again ==
    /\ wb_pc = "returned"
    /\ wb_ret.kind # "Panic"
    /\ wb_pc' = "idle"
    /\ wb_domain' = <<>>
    /\ wb_resp' = [net |-> "none"]
    /\ wb_ret' = [kind |-> "none"]
    /\ UNCHANGED notWbVars

WbNext ==
    \/ wb_send
    \/ wb_receive
    \/ wb_again

(***************************************************************************)
(* Specifications                                                          *)
(***************************************************************************)

\* the word-list manager, not in use
WlQuiet ==
    /\ fs = <<>>
    /\ default_directory = <<>>
    /\ wordlist_paths = <<>>
    /\ loaded_words = {}
    /\ wl_last = [op |-> "none"]

\* the scanner, not in use
ScanQuiet ==
    /\ concurrency = 0
    /\ spc = "idle"
    /\ subdomains = <<>>
    /\ next_idx = 0
    /\ queue = <<>>
    /\ results = <<>>
    /\ pb_pos = 0
    /\ probeLog = <<>>
    /\ counts = [valid |-> 0, invalid |-> 0, error |-> 0]
    /\ ret = NoRet

\* main, not running
MainQuiet ==
    /\ mpc = "none"
    /\ m_args = [domain |-> <<>>]
    /\ m_domain = <<>>
    /\ m_sources = {}
    /\ m_resp = [net |-> "none"]
    /\ m_wb = [kind |-> "none"]
    /\ m_scan = [called |-> FALSE]
    /\ m_exit = NoExit

\* the archive client, not in use
WbQuiet ==
    /\ wb_pc = "none"
    /\ wb_domain = <<>>
    /\ wb_resp = [net |-> "none"]
    /\ wb_ret = [kind |-> "none"]

ScanInit == ScannerNew /\ WlQuiet /\ MainQuiet /\ WbQuiet
SpecScan == ScanInit /\ [][ScanNext]_vars

\* the scan under a runtime that keeps polling: a step of the scan that stays
\* possible is eventually taken (the caller need not call again)
ScanFairness ==
    /\ WF_vars(buffered_fill)
    /\ WF_vars(probe_poll)
    /\ WF_vars(buffered_yield)
    /\ WF_vars(scan_domains_return)
SpecScanLive == ScanInit /\ [][ScanNext]_vars /\ ScanFairness

WlInit == WlNew /\ ScanQuiet /\ MainQuiet /\ WbQuiet
SpecWl == WlInit /\ [][WlNext]_vars

MainInit == MainStart /\ ScanQuiet /\ WlQuiet /\ WbQuiet
SpecMain == MainInit /\ [][MainNext]_vars

WbInit == WbNew /\ ScanQuiet /\ WlQuiet /\ MainQuiet
SpecWb == WbInit /\ [][WbNext]_vars

(***************************************************************************)
(* Properties of the scanner                                               *)
(***************************************************************************)

\* probes started (future built and queued) and not yet completed
InFlight == Cardinality({i \in 1..Len(queue) : queue[i].state = "pending"})

\* C1: at every moment of perform_scan the number of probes started and not
\* yet completed is at most `concurrency`; with concurrency = 1 a probe
\* starts only when every earlier one has completed.
C1_InFlightBounded ==
    /\ InFlight <= concurrency
    /\ next_idx - pb_pos = InFlight
    /\ (concurrency = 1 /\ InFlight = 1) => pb_pos = next_idx - 1

C1_Witness ==
    /\ spc = "probing"
    /\ concurrency = 2
    /\ InFlight = 2
    /\ next_idx < Len(subdomains)

\* C2: when the probe stage is over there is exactly one (candidate, status)
\* result per input candidate, and the three counts add up to the number of
\* candidates.
C2_Cardinality ==
    spc = "done" =>
        /\ Len(results) = Len(subdomains)
        /\ \A i \in 1..Len(subdomains) :
              /\ results[i][1] = subdomains[i]
              /\ results[i][2] \in ScanStatus
              /\ probeLog[i].n = 1
        /\ counts.valid + counts.invalid + counts.error = Len(subdomains)

C2_Witness ==
    /\ spc = "done"
    /\ counts.valid > 0
    /\ counts.invalid > 0
    /\ counts.error > 0

\* C3: scan_domains on an empty candidate list returns EmptyInput and starts
\* no probe.
C3_EmptyInput ==
    (spc # "idle" /\ subdomains = <<>>) =>
        /\ spc = "failed"
        /\ ret = [kind |-> "Err", err |-> "EmptyInput"]
        /\ next_idx = 0
        /\ pb_pos = 0
        /\ queue = <<>>

C3_Witness == spc = "failed" /\ subdomains = <<>>

\* the candidates whose probe came back Valid, in input order
RECURSIVE ValidFrom(_)
ValidFrom(i) ==
    IF i > Len(subdomains) THEN <<>>
    ELSE (IF probeLog[i].status = "Valid" THEN <<subdomains[i]>> ELSE <<>>)
         \o ValidFrom(i + 1)

\* C4: a probe ending in Error never aborts the batch: no error is returned
\* once a probe has errored, and the list returned holds exactly the
\* candidates whose status is Valid.
C4_ErrorNotFatal ==
    /\ (\E i \in DOMAIN probeLog : probeLog[i].status = "Error")
          => (spc # "failed" /\ ret.kind # "Err")
    /\ spc = "done" => (ret.kind = "Ok" /\ ret.val = ValidFrom(1))

C4_Witness ==
    /\ spc = "done"
    /\ \E i, j \in DOMAIN probeLog :
          /\ probeLog[i].status = "Error"
          /\ probeLog[j].status = "Valid"

Probed == {i \in DOMAIN probeLog : probeLog[i].n > 0}

\* C5 as stated: Live when resolution succeeds, Dead when the attempt times
\* out or the name does not resolve, Errored only for a malformed name or a
\* transport failure.
C5_TimeoutIsDead ==
    \A i \in Probed :
        LET ok == NameFromAsciiOk(subdomains[i])
            lk == probeLog[i].lookup
            st == probeLog[i].status
        IN /\ st = "Valid" <=> (ok /\ lk = "OkSome")
           /\ st = "Invalid" <=> (ok /\ lk \in {"OkNone", "NoRecordsFound", "Timeout"})
           /\ st = "Error" <=> (~ok \/ lk = "Io")

\* C5, amended: Valid when the name parses and the lookup returns an
\* address, Invalid when the lookup returns none or fails with
\* NoRecordsFound, Error for a malformed name and for every other resolve
\* error, a timeout included.
C5_Classification ==
    \A i \in Probed :
        LET ok == NameFromAsciiOk(subdomains[i])
            lk == probeLog[i].lookup
            st == probeLog[i].status
        IN /\ st = "Valid" <=> (ok /\ lk = "OkSome")
           /\ st = "Invalid" <=> (ok /\ lk \in {"OkNone", "NoRecordsFound"})
           /\ st = "Error" <=> (~ok \/ lk \in {"Timeout", "Io"})

C5_Witness ==
    \E i \in Probed :
        /\ NameFromAsciiOk(subdomains[i])
        /\ probeLog[i].lookup = "Timeout"
        /\ probeLog[i].status = "Error"
(***************************************************************************)
(* Properties of the word-list manager                                     *)
(***************************************************************************)

\* C7: load_all returns EmptyWordlist exactly when it has gone through every
\* registered file and the fragment set is empty; when it returns Ok the
\* fragment set is not empty.
C7_EmptyWordlist ==
    wl_last.op = "load_all" =>
        /\ wl_last.err = "EmptyWordlist"
              <=> /\ wl_last.stage = "end"
                  /\ wl_last.gone = Len(wordlist_paths)
                  /\ loaded_words = {}
        /\ wl_last.kind = "Ok" => loaded_words # {}
        /\ wl_last.kind = "Ok" <=> wl_last.err = "none"

C7_Witness ==
    /\ wl_last.op = "load_all"
    /\ wl_last.err = "EmptyWordlist"
    /\ \E p \in Range(wordlist_paths) : IsFile(p) /\ fs[p].lines # <<>>

\* C8 as stated: add_wordlist on a path whose file does not exist fails and
\* leaves the list unchanged; it succeeds only when the path is registered.
C8_NotFoundOnMissing ==
    wl_last.op = "add_wordlist" =>
        /\ ~wl_last.existed => (wl_last.kind = "Err" /\ wordlist_paths = wl_last.before)
        /\ wl_last.kind = "Ok" => wl_last.path \in Range(wordlist_paths)

\* C8, amended: add_wordlist always returns Ok; on a path whose file does
\* not exist it leaves the list unchanged, and it records the path exactly
\* when the file exists and is not registered yet.
C8_MissingIgnored ==
    wl_last.op = "add_wordlist" =>
        /\ wl_last.kind = "Ok"
        /\ ~wl_last.existed => wordlist_paths = wl_last.before
        /\ wl_last.existed =>
              /\ wl_last.path \in Range(wordlist_paths)
              /\ wl_last.path \in Range(wl_last.before)
                    => wordlist_paths = wl_last.before
              /\ wl_last.path \notin Range(wl_last.before)
                    => wordlist_paths = Append(wl_last.before, wl_last.path)

C8_Witness ==
    /\ wl_last.op = "add_wordlist"
    /\ ~wl_last.existed
    /\ wl_last.kind = "Ok"
    /\ wl_last.before # <<>>

\* a registered file that can be opened and read to the end
Readable(p) == IsFile(p) /\ FsAt(p).err = "none"

\* C9: with several files registered, load_all skips one that cannot be
\* opened or read and still loads the fragments of every other one; an I/O
\* failure ends the load only when the file is the sole source.
C9_FailedFileSkipped ==
    (wl_last.op = "load_all" /\ Len(wordlist_paths) >= 2) =>
        /\ \A p \in Range(wordlist_paths) :
              Readable(p) => insert_lines({}, fs[p].lines) \subseteq loaded_words
        /\ wl_last.err # "IoError"

\* the label validation rule
LabelRule(w) ==
    /\ Len(w) \in 1..63
    /\ w[1] \in Alnum
    /\ w[Len(w)] \in Alnum
    /\ \A i \in 1..Len(w) : w[i] \in Alnum \cup {"-", "_", "."}
    /\ \A i \in 1..(Len(w) - 1) : ~(w[i] = w[i + 1] /\ w[i] \in {".", "-"})

\* C10: every loaded fragment satisfies the label validation rule and holds
\* none of = [ ] { } ? &; a line that fails the rule is skipped without
\* failing the load: when no file fails, load_all reaches its end and every
\* line that satisfies the rule within the byte limit is loaded.
C10_FragmentsValid ==
    /\ \A w \in loaded_words :
          /\ LabelRule(w)
          /\ \A c \in SkipChars : ~Contains(w, c)
    /\ ( /\ wl_last.op = "load_all"
         /\ wl_last.stage # "add_directory"
         /\ \A p \in Range(wordlist_paths) : Exists(p) => Readable(p) )
        => /\ wl_last.stage = "end"
           /\ \A p \in Range(wordlist_paths) : \A l \in Range(FsAt(p).lines) :
                 (LabelRule(Trim(l)) /\ ByteLen(Trim(l)) <= MaxWordBytes)
                    => Trim(l) \in loaded_words

C10_Witness ==
    /\ wl_last.op = "load_all"
    /\ wl_last.kind = "Ok"
    /\ \E p \in Range(wordlist_paths) :
          \E i, j \in 1..Len(FsAt(p).lines) :
             /\ i < j
             /\ Trim(fs[p].lines[i]) # <<>>
             /\ ~LabelRule(Trim(fs[p].lines[i]))
             /\ Trim(fs[p].lines[j]) \in loaded_words
(***************************************************************************)
(* Properties of main                                                      *)
(***************************************************************************)

\* C6: when the archive harvest fails with a WaybackError the run does not
\* abort there: main goes on to scan_domains, with the sources registered
\* before the harvest and nothing harvested.
C6_HarvestFailureNotFatal ==
    m_wb.kind = "Err" =>
        /\ m_wb.err \in {"NetworkError", "HttpError", "InvalidResponse", "EmptyResponse"}
        /\ mpc \in {"scan", "output", "done", "aborted"}
        /\ mpc = "aborted" => m_exit.at \in {"scan", "output"}
        /\ "historical" \notin m_sources
        /\ mpc # "scan" => (m_scan.called /\ m_scan.sources = m_sources)

C6_Witness ==
    /\ m_wb.kind = "Err"
    /\ m_wb.err = "NetworkError"
    /\ mpc = "done"
    /\ m_scan.probed # {}
(***************************************************************************)
(* Properties of the archive harvest                                       *)
(***************************************************************************)

\* the response is a table that holds the header row and nothing else
HeaderOnly(resp) ==
    resp.net = "ok" /\ resp.success /\ resp.json /\ Len(resp.table) = 1

\* C11: fetch_subdomains returns the EmptyResponse error when the response
\* table holds only the header row, not a successful empty result.
C11_HeaderOnlyIsEmptyResponse ==
    (wb_pc = "returned" /\ HeaderOnly(wb_resp))
        => (wb_ret.kind = "Err" /\ wb_ret.err = "EmptyResponse")

\* the host of a URL: the text after "://" up to the next "/"
HostOf(u) ==
    IF FindFrom(u, SchemeSep, 1) = 0 THEN <<>>
    ELSE BeforeSlash(SubSeq(u, FindFrom(u, SchemeSep, 1) + 3, Len(u)))

\* one or more dot-separated labels
IsLabels(p) ==
    /\ p # <<>>
    /\ \A i \in 1..Len(p) : p[i] \in LabelChars \cup {"."}
    /\ p[1] # "." /\ p[Len(p)] # "."
    /\ \A i \in 1..(Len(p) - 1) : ~(p[i] = "." /\ p[i + 1] = ".")

\* the host is labels, a dot, and the target domain at its end
HostUnder(h, base) ==
    /\ Len(h) > Len(base) + 1
    /\ EndsWithStr(h, <<".">> \o base)
    /\ IsLabels(SubSeq(h, 1, Len(h) - Len(base) - 1))

\* the URLs of the response table, header row dropped
RowUrls(resp) == [i \in 1..(Len(resp.table) - 1) |-> resp.table[i + 1][1]]

\* C12: extract_subdomains returns exactly the hosts of the URLs whose host
\* is one or more labels followed by, and ending in, the target domain;
\* every other URL is counted as skipped.
C12_ExactHosts ==
    (wb_pc = "returned" /\ wb_ret.kind = "Ok") =>
        LET urls == RowUrls(wb_resp)
            base == QueryDomain(wb_domain)
            good == {i \in 1..Len(urls) : HostUnder(HostOf(urls[i]), base)}
        IN /\ wb_ret.val = {HostOf(urls[i]) : i \in good}
           /\ wb_ret.skipped = Len(urls) - Cardinality(good)

(***************************************************************************)
(* Properties of the target domain                                         *)
(***************************************************************************)

\* the input trimmed and lower-cased, an optional scheme:// prefix removed
StripScheme(arg) ==
    IF FindFrom(ToLower(Trim(arg)), SchemeSep, 1) = 0 THEN ToLower(Trim(arg))
    ELSE SubSeq(ToLower(Trim(arg)),
                FindFrom(ToLower(Trim(arg)), SchemeSep, 1) + 3,
                Len(Trim(arg)))

\* non-empty and with at least one '.'
ValidDomainInput(arg) ==
    StripScheme(arg) # <<>> /\ Contains(StripScheme(arg), ".")

\* C13: main goes past extract_domain only with a domain that is non-empty
\* and holds a '.'; with any other input the run stops there with an input
\* error, before a word list is registered and before any probe.
C13_DomainValidated ==
    mpc # "start" =>
        IF ValidDomainInput(m_args.domain)
          THEN m_domain # <<>> /\ Contains(m_domain, ".")
          ELSE /\ mpc = "aborted"
               /\ m_exit = Aborted("start", "Invalid domain format")
               /\ m_sources = {}
               /\ ~m_scan.called

(***************************************************************************)
(* Properties of the scan as a whole                                       *)
(***************************************************************************)

\* C14: a scan fails with EmptyInput only on an empty candidate set, no
\* candidate is probed more than once, and every scan of a non-empty
\* candidate set eventually completes, whatever concurrency the Scanner was
\* built with.
C14_ScanCompletes ==
    /\ [](spc = "failed" => subdomains = <<>>)
    /\ [](\A i \in DOMAIN probeLog : probeLog[i].n <= 1)
    /\ (spc = "probing") ~> (spc = "done")

(***************************************************************************)
(* Properties of reloading                                                 *)
(***************************************************************************)

\* the distinct valid lines of a file: trimmed, within the label rule and
\* the byte limit
ValidLines(p) ==
    {w \in {Trim(l) : l \in Range(FsAt(p).lines)} :
        LabelRule(w) /\ ByteLen(w) <= MaxWordBytes}

\* C15: a successful load_all leaves the fragment set equal to the set of
\* distinct valid lines of the registered files as they are now: nothing of
\* an earlier load survives unless a registered file still holds it, so a
\* second load_all in a row gives the same set.
C15_ExactlyRegisteredLines ==
    (wl_last.op = "load_all" /\ wl_last.kind = "Ok") =>
        loaded_words = UNION {ValidLines(p) : p \in Range(wordlist_paths)}

C15_Witness ==
    /\ wl_last.op = "load_all"
    /\ wl_last.kind = "Ok"
    /\ wl_last.prev \ loaded_words # {}
    /\ wl_last.prev \cap loaded_words # {}
====
